---- MODULE Spec2Model ----
(***************************************************************************)
(* A model of the IMDb scraping client of imdb-trakt-sync                  *)
(* (pkg/client/imdb.go): client construction and hydration, the request    *)
(* helper doRequest, the export and scrape operations, the CSV export      *)
(* reader readResponse and the slug derivation FormatTraktListName.        *)
(*                                                                         *)
(* Go strings that the code takes apart (display names, file names) are    *)
(* sequences of one-character strings; opaque strings (ids, paths, CSV     *)
(* fields) are TLA+ strings.  A Go pointer or optional value is <<>> (nil) *)
(* or <<v>>.  An error is its chain of wrapped errors, outermost first,    *)
(* and <<>> is the nil error.                                              *)
(***************************************************************************)
EXTENDS Naturals, Sequences, FiniteSets, TLC

VARIABLES
    phase,      \* "start" | "ready" | "failed" | "dead" : the process around the client
    client,     \* <<>> or <<c>> : the *ImdbClient the caller holds
    call,       \* the last operation called: its inputs, its result and its events
    slugIn,     \* the input of FormatTraktListName
    slugOut,    \* the successive outputs of FormatTraktListName
    parseIn,    \* the response and mode handed to readResponse
    parseOut    \* the result of readResponse

vars == <<phase, client, call, slugIn, slugOut, parseIn, parseOut>>

clientVars == <<phase, client, call>>
slugVars == <<slugIn, slugOut>>
parseVars == <<parseIn, parseOut>>

-----------------------------------------------------------------------------
(* Bounds of the model. *)

\* longest input string of FormatTraktListName
MaxLen == 4
\* how many times FormatTraktListName is applied in a row
MaxApply == 2
\* most rows of a decoded CSV handed to readResponse on its own
MaxRows == 3
\* most ".user-list" elements of a scraped lists page
MaxLists == 2

-----------------------------------------------------------------------------
(* Small helpers on sequences. *)

Last(s) == s[Len(s)]

SeqsUpTo(S, n) == UNION {[1..k -> S] : k \in 0..n}

-----------------------------------------------------------------------------
(* FormatTraktListName, on strings over a small alphabet that holds one    *)
(* character of every class the function tells apart.                      *)

Alphabet == {"a", "A", "1", "-", " ", "!", "E'"}

\* unicode.IsSpace
IsSpace(ch) == ch \in {" ", "\t", "\n"}

UpperCase ==
    <<"A", "B", "C", "D", "E", "F", "G", "H", "I", "J", "K", "L", "M",
      "N", "O", "P", "Q", "R", "S", "T", "U", "V", "W", "X", "Y", "Z">>
LowerCase ==
    <<"a", "b", "c", "d", "e", "f", "g", "h", "i", "j", "k", "l", "m",
      "n", "o", "p", "q", "r", "s", "t", "u", "v", "w", "x", "y", "z">>

\* unicode.ToLower, character by character ("E'" stands for an accented
\* capital whose lower case is the non-ASCII letter "e'")
ToLowerChar(ch) ==
    IF \E i \in 1..Len(UpperCase) : UpperCase[i] = ch
    THEN LowerCase[CHOOSE i \in 1..Len(UpperCase) : UpperCase[i] = ch]
    ELSE IF ch = "E'" THEN "e'" ELSE ch

ToLower(s) == [i \in 1..Len(s) |-> ToLowerChar(s[i])]

\* strings.Fields: the maximal runs of non-space characters, in order
RECURSIVE FieldsFrom(_, _, _)
FieldsFrom(s, i, cur) ==
    IF i > Len(s)
    THEN IF cur = <<>> THEN <<>> ELSE <<cur>>
    ELSE IF IsSpace(s[i])
         THEN (IF cur = <<>> THEN <<>> ELSE <<cur>>) \o FieldsFrom(s, i + 1, <<>>)
         ELSE FieldsFrom(s, i + 1, Append(cur, s[i]))

Fields(s) == FieldsFrom(s, 1, <<>>)

\* strings.Join
RECURSIVE Join(_, _)
Join(words, sep) ==
    IF words = <<>> THEN <<>>
    ELSE IF Len(words) = 1 THEN words[1]
    ELSE words[1] \o sep \o Join(Tail(words), sep)

\* the characters the regular expression [^-a-z0-9]+ does not match
SlugChars ==
    {LowerCase[i] : i \in 1..Len(LowerCase)}
    \cup {"0", "1", "2", "3", "4", "5", "6", "7", "8", "9", "-"}

\* regexp.ReplaceAllString(formatted, ""): every matched run is deleted
StripAllButSlugChars(s) == SelectSeq(s, LAMBDA ch : ch \in SlugChars)

\* a replacement that deletes nothing
StripNothing(s) == s

ReplaceAllString(s) == StripAllButSlugChars(s)

FormatTraktListName(imdbListName) ==
    ReplaceAllString(ToLower(Join(Fields(imdbListName), <<"-">>)))

-----------------------------------------------------------------------------
(* Responses, and readResponse.                                            *)
(*                                                                         *)
(* A response is [StatusCode, Header, Body].  Header is the value of the   *)
(* Content-Disposition header as mime.ParseMediaType sees it: <<>> when    *)
(* the header is absent, <<[ok |-> FALSE]>> when it does not parse and     *)
(* <<[ok |-> TRUE, params |-> p]>> with p the parameter map otherwise.     *)
(* Body is [data, readErr, closeErr, closed]: what a reader decodes from   *)
(* it (the records encoding/csv returns, or the parsed HTML document),     *)
(* whether reading it fails, whether closing it fails, and whether the     *)
(* HTTP client has closed it already when it hands the response over.      *)

resourceTypeList == "list"
resourceTypeWatchlist == "watchlist"
resourceTypeRating == "rating"

\* record[i] of the Go code, columns counted from 0
Col(record, i) == record[i + 1]

\* an index expression record[i] panics when i is out of range
InRange(record, i) == i < Len(record)

\* strconv.Atoi on the numerals the model uses; every other string is an error
AtoiTable == [n \in {"0", "1", "9", "10", "11"} |->
                 CASE n = "0" -> 0 [] n = "1" -> 1 [] n = "9" -> 9
                   [] n = "10" -> 10 [] n = "11" -> 11]

AtoiOk(s) == s \in DOMAIN AtoiTable

\* time.Parse("2006-01-02", s) on the dates the model uses
DateTable == [d \in {"2020-05-01", "2021-12-31"} |->
                 IF d = "2020-05-01" THEN [year |-> 2020, month |-> 5, day |-> 1]
                 ELSE [year |-> 2021, month |-> 12, day |-> 31]]

DateOk(s) == s \in DOMAIN DateTable

\* strings.Split(s, ".")[0]: the characters before the first "."
RECURSIVE BeforeDot(_)
BeforeDot(s) ==
    IF s = <<>> \/ Head(s) = "." THEN <<>> ELSE <<Head(s)>> \o BeforeDot(Tail(s))

\* params["filename"]: the empty string when the map has no such key
Filename(params) ==
    IF "filename" \in DOMAIN params THEN params["filename"] ELSE <<>>

\* the list-mode loop body: the index expressions record[1] and record[7]
ListRow(record) ==
    IF InRange(record, 1) /\ InRange(record, 7)
    THEN [out |-> "ok",
          item |-> [Id |-> Col(record, 1), TitleType |-> Col(record, 7),
                    Rating |-> <<>>, RatingDate |-> <<>>]]
    ELSE [out |-> "panic"]

\* the rating-mode loop body, in the order the code evaluates it
RatingRow(record) ==
    IF ~InRange(record, 1) THEN [out |-> "panic"]
    ELSE IF ~AtoiOk(Col(record, 1)) THEN [out |-> "exit"]
    ELSE IF ~InRange(record, 2) THEN [out |-> "panic"]
    ELSE IF ~DateOk(Col(record, 2)) THEN [out |-> "exit"]
    ELSE IF ~InRange(record, 5) THEN [out |-> "panic"]
    ELSE [out |-> "ok",
          item |-> [Id |-> Col(record, 0), TitleType |-> Col(record, 5),
                    Rating |-> <<AtoiTable[Col(record, 1)]>>,
                    RatingDate |-> <<DateTable[Col(record, 2)]>>]]

\* for i, record := range csvData { if i > 0 { ... } }: the rows after the
\* first, in order, stopping at the first row that panics or exits
RECURSIVE RangeRows(_, _, _, _)
RECURSIVE RangeOnRow(_, _, _, _, _)

RangeOnRow(csvData, i, resType, acc, r) ==
    IF r.out = "ok" THEN RangeRows(csvData, i + 1, resType, Append(acc, r.item))
    ELSE [out |-> r.out, items |-> <<>>]

\* the row the loop skips: if i > 0
OmitsRow(i) == i = 1

RangeRows(csvData, i, resType, acc) ==
    IF i > Len(csvData) THEN [out |-> "ok", items |-> acc]
    ELSE IF OmitsRow(i) THEN RangeRows(csvData, i + 1, resType, acc)
    ELSE IF resType = resourceTypeList
    THEN RangeOnRow(csvData, i, resType, acc, ListRow(csvData[i]))
    ELSE RangeOnRow(csvData, i, resType, acc, RatingRow(csvData[i]))

ReadResult(out, name, items) == [out |-> out, name |-> name, items |-> items]

\* the list mode after the loop: the Content-Disposition header
readListName(res, rows) ==
    IF rows.out # "ok" THEN ReadResult(rows.out, <<>>, <<>>)
    ELSE IF res.Header = <<>> THEN ReadResult("exit", <<>>, <<>>)
    ELSE IF ~res.Header[1].ok \/ res.Header[1].params = <<>>
    THEN ReadResult("exit", <<>>, <<>>)
    ELSE ReadResult("return", <<BeforeDot(Filename(res.Header[1].params))>>, rows.items)

\* the rating mode after the loop
readRatings(rows) ==
    IF rows.out # "ok" THEN ReadResult(rows.out, <<>>, <<>>)
    ELSE ReadResult("return", <<>>, rows.items)

\* readResponse: out is "return", "exit" (log.Fatalf) or "panic"
readResponse(res, resType) ==
    IF res.Body.readErr THEN ReadResult("exit", <<>>, <<>>)
    ELSE IF resType = resourceTypeList
    THEN readListName(res, RangeRows(res.Body.data, 1, resType, <<>>))
    ELSE IF resType = resourceTypeRating
    THEN readRatings(RangeRows(res.Body.data, 1, resType, <<>>))
    ELSE ReadResult("exit", <<>>, <<>>)

-----------------------------------------------------------------------------
(* The exports the model draws from: rows of an IMDb list export and of a  *)
(* ratings export, whole or cut short.                                     *)

ListHeaderRow ==
    <<"Position", "Const", "Created", "Modified", "Description", "Title", "URL",
      "Title Type", "IMDb Rating", "Runtime (mins)">>
ListRowA ==
    <<"1", "tt0111161", "2020-05-01", "2020-05-01", "", "The Shawshank Redemption",
      "https://www.imdb.com/title/tt0111161/", "movie", "9.3", "142">>
ListRowB ==
    <<"2", "tt0944947", "2021-12-31", "2021-12-31", "", "Game of Thrones",
      "https://www.imdb.com/title/tt0944947/", "tvSeries", "9.2", "57">>

RatingHeaderRow ==
    <<"Const", "Your Rating", "Date Rated", "Title", "URL", "Title Type", "IMDb Rating">>
RatingRowA ==
    <<"tt0111161", "9", "2020-05-01", "The Shawshank Redemption",
      "https://www.imdb.com/title/tt0111161/", "movie", "9.3">>
RatingRowBadRating ==
    <<"tt0944947", "nine", "2021-12-31", "Game of Thrones",
      "https://www.imdb.com/title/tt0944947/", "tvSeries", "9.2">>
RatingRowBadDate ==
    <<"tt0944947", "10", "31/12/2021", "Game of Thrones",
      "https://www.imdb.com/title/tt0944947/", "tvSeries", "9.2">>

Prefixes(row, lens) == {SubSeq(row, 1, n) : n \in {m \in lens : m <= Len(row)}}

ListRowPool ==
    UNION {Prefixes(r, {1, 7, 8, 10}) : r \in {ListHeaderRow, ListRowA, ListRowB}}

RatingRowPool ==
    UNION {Prefixes(r, {1, 2, 5, 6}) :
              r \in {RatingHeaderRow, RatingRowA, RatingRowBadRating, RatingRowBadDate}}

FilenameMyList == <<"M", "y", " ", "L", "i", "s", "t", ".", "c", "s", "v">>
FilenameSciFi == <<"A", " ", "!", "a", ".", "c", "s", "v">>

HeaderAbsent == <<>>
HeaderMalformed == <<[ok |-> FALSE, params |-> <<>>]>>
HeaderNoParams == <<[ok |-> TRUE, params |-> <<>>]>>
HeaderNamed(f) == <<[ok |-> TRUE, params |-> [filename |-> f]]>>
HeaderOtherParam == <<[ok |-> TRUE, params |-> [size |-> <<"1">>]]>>

Headers ==
    {HeaderAbsent, HeaderMalformed, HeaderNoParams, HeaderOtherParam,
     HeaderNamed(FilenameMyList), HeaderNamed(FilenameSciFi)}

GoodBody(data) ==
    [data |-> data, readErr |-> FALSE, closeErr |-> FALSE, closed |-> FALSE]
UnreadableBody ==
    [data |-> <<>>, readErr |-> TRUE, closeErr |-> FALSE, closed |-> FALSE]
UnclosableBody(data) ==
    [data |-> data, readErr |-> FALSE, closeErr |-> TRUE, closed |-> FALSE]
ClosedBody ==
    [data |-> <<>>, readErr |-> TRUE, closeErr |-> FALSE, closed |-> TRUE]

-----------------------------------------------------------------------------
(* Errors. *)

\* fmt.Errorf("msg: %w", err)
Wrap(msg, err) == <<[type |-> "wrap", msg |-> msg]>> \o err

\* fmt.Errorf("msg") and the errors the libraries return
NewError(msg) == <<[type |-> "errorString", msg |-> msg]>>

\* errors.As(err, new(*T)): some error of the chain is a T
ErrorsAs(err, t) == \E i \in 1..Len(err) : err[i].type = t

\* the innermost error of a chain
Cause(err) == err[Len(err)]

ImdbError(method, url, statusCode, details) ==
    <<[type |-> "ImdbError", httpMethod |-> method, url |-> url,
       statusCode |-> statusCode, details |-> details]>>

ResourceNotFoundError(resourceType, resourceId) ==
    <<[type |-> "ResourceNotFoundError", resourceType |-> resourceType,
       resourceId |-> resourceId]>>

-----------------------------------------------------------------------------
(* The client, its paths and doRequest. *)

imdbCookieNameAtMain == "at-main"
imdbCookieNameUbidMain == "ubid-main"
imdbPathBase == "https://www.imdb.com"
imdbPathProfile == <<"/profile">>
imdbPathWatchlist == <<"/watchlist">>
\* fmt.Sprintf of the path templates
imdbPathListExport(listId) == <<"/list/", listId, "/export">>
imdbPathLists(userId) == <<"/user/", userId, "/lists">>
imdbPathRatingsExport(userId) == <<"/user/", userId, "/ratings/export">>

StatusOK == 200
StatusForbidden == 403
StatusNotFound == 404
\* statuses of the default branch of the switch of doRequest
UnexpectedStatuses == {401, 500}

\* an id that makes the URL unparsable (an invalid percent escape)
BadEscapeId == "%zz"

\* http.NewRequest succeeds when the URL parses
ValidURL(url) == \A i \in 1..Len(url) : url[i] # BadEscapeId

\* setupCookieJar: the jar holds the two cookies of the configuration
setupCookieJar(config) ==
    <<[Name |-> imdbCookieNameAtMain, Value |-> config.CookieAtMain],
      [Name |-> imdbCookieNameUbidMain, Value |-> config.CookieUbidMain]>>

\* What c.client.Do(req) can return: an error and no response (the request
\* could not be sent), an error and the last response with its body closed (a
\* failed redirect check), or a response and no error.
TransportFailure ==
    [err |-> NewError("dial tcp: connection refused"), res |-> <<>>]
RedirectFailure ==
    [err |-> NewError("stopped after 10 redirects"),
     res |-> <<[StatusCode |-> 302, Header |-> <<>>, Body |-> ClosedBody]>>]
Responded(status, header, body) ==
    [err |-> <<>>, res |-> <<[StatusCode |-> status, Header |-> header, Body |-> body]>>]

\* the events of a call: c.client.Do was called and returned o; doRequest
\* returned (res, err); a body was read; a body was closed; a function was
\* entered.  k numbers the requests of an operation.
DoEvent(params, url, o, k) ==
    [ev |-> "Do", k |-> k, method |-> params.Method, url |-> url, o |-> o]
ReturnEvent(k, res, err) == [ev |-> "doRequest", k |-> k, res |-> res, err |-> err]
ReadEvent(k) == [ev |-> "read", k |-> k]
CloseEvent(k) == [ev |-> "close", k |-> k]
CallEvent(fn) == [ev |-> "call", fn |-> fn]

\* doRequest returns (res, err) after the events trace
Back(trace, k, res, err) ==
    [out |-> "return", res |-> res, err |-> err,
     trace |-> Append(trace, ReturnEvent(k, res, err))]

\* the switch on res.StatusCode: which statuses hand the response back
ReturnsResponse(status) == status \in {StatusOK, StatusNotFound}

\* the error of the default branch of the switch
UnexpectedStatusError(method, url, statusCode) ==
    ImdbError(method, url, statusCode, <<"unexpected status code", statusCode>>)
\* the same error without the URL of the request
UnexpectedStatusErrorNoUrl(method, url, statusCode) ==
    ImdbError(method, <<>>, statusCode, <<"unexpected status code", statusCode>>)
DefaultBranchError(method, url, statusCode) ==
    UnexpectedStatusError(method, url, statusCode)

\* the switch on res.StatusCode
doRequestStatus(params, url, res, do, k) ==
    IF ReturnsResponse(res.StatusCode) THEN Back(<<do>>, k, <<res>>, <<>>)
    ELSE IF res.StatusCode = StatusForbidden
    THEN Back(<<do>>, k, <<>>,
              ImdbError(params.Method, url, res.StatusCode,
                        <<"imdb authorization failure - update the imdb cookie values">>))
    ELSE Back(<<do>>, k, <<>>, DefaultBranchError(params.Method, url, res.StatusCode))

\* doRequest from c.client.Do(req) on; res.Request.URL panics when res is nil
doRequestSend(params, url, o, k) ==
    IF o.err # <<>>
    THEN IF o.res = <<>>
         THEN [out |-> "panic", res |-> <<>>, err |-> <<>>,
               trace |-> <<DoEvent(params, url, o, k)>>]
         ELSE Back(<<DoEvent(params, url, o, k)>>, k, <<>>,
                   Wrap("failure sending http request", o.err))
    ELSE doRequestStatus(params, url, o.res[1], DoEvent(params, url, o, k), k)

\* doRequest up to c.client.Do(req): http.NewRequest on the URL
doRequestURL(params, url, o, k) ==
    IF ~ValidURL(url)
    THEN Back(<<>>, k, <<>>,
              Wrap("failure creating http request", NewError("invalid URL escape")))
    ELSE doRequestSend(params, url, o, k)

\* doRequest(params), where o is what c.client.Do returns if it is called.
\* The result is [out, res, err, trace]; out is "return" or "panic".  No
\* caller sets params.Body.
doRequest(c, params, o, k) == doRequestURL(params, <<c.endpoint>> \o params.Path, o, k)

Get(path) == [Method |-> "GET", Path |-> path]

\* DrainBody(body), deferred: it runs when the function returns or panics, and
\* never after log.Fatalf; a failing Close is itself a log.Fatalf
DrainBody(r, body, k) ==
    IF r.out = "exit" THEN r
    ELSE [r EXCEPT !.trace = Append(@, CloseEvent(k)),
                   !.out = IF body.closeErr THEN "exit" ELSE @]

-----------------------------------------------------------------------------
(* The export operations.  Each result is [out, name, items, err, trace]. *)

ExportResult(out, name, items, err, trace) ==
    [out |-> out, name |-> name, items |-> items, err |-> err, trace |-> trace]

\* an export operation after readResponse
ExportOnRead(rr, trace) ==
    IF rr.out = "return"
    THEN ExportResult("return", rr.name, rr.items, <<>>, trace)
    ELSE ExportResult(rr.out, <<>>, <<>>, <<>>, trace)

\* the 404 check of an export operation
ExportNotFound(res) == res.StatusCode = StatusNotFound

\* an export operation from defer DrainBody(res.Body) on
ExportOnResponse(res, trace, notFound, resType, k) ==
    IF ExportNotFound(res)
    THEN DrainBody(ExportResult("return", <<>>, <<>>, notFound, trace), res.Body, k)
    ELSE DrainBody(ExportOnRead(readResponse(res, resType), Append(trace, ReadEvent(k))),
                   res.Body, k)

\* an export operation from the return of doRequest on
ExportOnRequest(r, fn, wrapMsg, notFound, resType, k) ==
    IF r.out = "panic"
    THEN ExportResult("panic", <<>>, <<>>, <<>>, <<CallEvent(fn)>> \o r.trace)
    ELSE IF r.err # <<>>
    THEN ExportResult("return", <<>>, <<>>, Wrap(wrapMsg, r.err),
                      <<CallEvent(fn)>> \o r.trace)
    ELSE ExportOnResponse(r.res[1], <<CallEvent(fn)>> \o r.trace, notFound, resType, k)

\* the error of the 404 branch of ListItemsGet, and the same error without
\* the id of the list
ListNotFoundError(listId) == ResourceNotFoundError(resourceTypeList, <<listId>>)
ListNotFoundErrorNoId(listId) == ResourceNotFoundError(resourceTypeList, <<>>)
ListItemsGetNotFound(listId) == ListNotFoundError(listId)

ListItemsGet(c, listId, o, k) ==
    ExportOnRequest(doRequest(c, Get(imdbPathListExport(listId)), o, k),
                    "ListItemsGet", "failure trying to retrieve imdb list",
                    ListItemsGetNotFound(listId), resourceTypeList, k)

\* return &c.config.WatchlistId, list, nil
WatchlistNamed(r, watchlistId) ==
    IF r.out = "return" /\ r.err = <<>> THEN [r EXCEPT !.name = <<watchlistId>>] ELSE r

WatchlistGet(c, o, k) ==
    WatchlistNamed(
        ExportOnRequest(doRequest(c, Get(imdbPathListExport(c.config.WatchlistId)), o, k),
                        "WatchlistGet", "failure trying to retrieve imdb watchlist",
                        ResourceNotFoundError(resourceTypeWatchlist, <<c.config.WatchlistId>>),
                        resourceTypeList, k),
        c.config.WatchlistId)

RatingsGet(c, o, k) ==
    ExportOnRequest(doRequest(c, Get(imdbPathRatingsExport(c.config.UserId)), o, k),
                    "RatingsGet", "failure trying to retrieve imdb ratings",
                    ResourceNotFoundError(resourceTypeRating, <<>>),
                    resourceTypeRating, k)

-----------------------------------------------------------------------------
(* The scrape operations.  A parsed HTML document is [userid, pageId,      *)
(* lists]: the data-userid attribute of ".user-profile.userId", the        *)
(* content attribute of "meta[property='pageId']" (each <<>> when the      *)
(* element or the attribute is absent) and the id attributes of the        *)
(* ".user-list" elements in document order (<<>> for an element without).  *)

Doc(userid, pageId, lists) == [userid |-> userid, pageId |-> pageId, lists |-> lists]

\* A page fetched: [out, err, trace, page], page being <<>> or <<res>>, the
\* response whose body the function has deferred the release of.
Page(out, err, trace, page) == [out |-> out, err |-> err, trace |-> trace, page |-> page]

\* a scrape from the return of doRequest to goquery.NewDocumentFromReader
PageOnRequest(r, fn, wrapMsg, k) ==
    IF r.out = "panic" THEN Page("panic", <<>>, <<CallEvent(fn)>> \o r.trace, <<>>)
    ELSE IF r.err # <<>>
    THEN Page("return", Wrap(wrapMsg, r.err), <<CallEvent(fn)>> \o r.trace, <<>>)
    ELSE IF r.res[1].Body.readErr
    THEN Page("return",
              Wrap("failure creating goquery document from imdb response",
                   NewError("read error")),
              (<<CallEvent(fn)>> \o r.trace) \o <<ReadEvent(k)>>, r.res)
    ELSE Page("return", <<>>, (<<CallEvent(fn)>> \o r.trace) \o <<ReadEvent(k)>>, r.res)

ScrapeResult(out, err, trace, config) ==
    [out |-> out, err |-> err, trace |-> trace, config |-> config]

\* the end of a scrape: the deferred DrainBody, if the function came to defer it
ScrapeEnd(p, err, config, k) ==
    IF p.page = <<>> THEN ScrapeResult(p.out, err, p.trace, config)
    ELSE DrainBody(ScrapeResult(p.out, err, p.trace, config), p.page[1].Body, k)

\* UserIdScrape from the document on
UserIdOnPage(config, p, k) ==
    IF p.page = <<>> \/ p.err # <<>> THEN ScrapeEnd(p, p.err, config, k)
    ELSE IF p.page[1].Body.data.userid = <<>>
    THEN ScrapeEnd(p, NewError("failure scraping imdb profile: user id not found"),
                   config, k)
    ELSE ScrapeEnd(p, <<>>, [config EXCEPT !.UserId = p.page[1].Body.data.userid[1]], k)

UserIdScrape(c, o, k) ==
    UserIdOnPage(c.config,
                 PageOnRequest(doRequest(c, Get(imdbPathProfile), o, k), "UserIdScrape",
                               "failure trying to scrape imdb user id", k),
                 k)

\* WatchlistIdScrape from the document on
WatchlistIdOnPage(config, p, k) ==
    IF p.page = <<>> \/ p.err # <<>> THEN ScrapeEnd(p, p.err, config, k)
    ELSE IF p.page[1].Body.data.pageId = <<>>
    THEN ScrapeEnd(p, NewError("failure scraping imdb profile: watchlist id not found"),
                   config, k)
    ELSE ScrapeEnd(p, <<>>, [config EXCEPT !.WatchlistId = p.page[1].Body.data.pageId[1]], k)

WatchlistIdScrape(c, o, k) ==
    WatchlistIdOnPage(c.config,
                      PageOnRequest(doRequest(c, Get(imdbPathWatchlist), o, k),
                                    "WatchlistIdScrape",
                                    "failure trying to scrape imdb watchlist id", k),
                      k)

\* the condition of Hydrate under which the user id is scraped (and the same
\* condition with "auto-detect" as the sentinel)
ScrapesUserIdOnAutoDetect(userId) == userId = "" \/ userId = "auto-detect"
ScrapesUserIdOnScrape(userId) == userId = "" \/ userId = "scrape"
ScrapesUserId(userId) == ScrapesUserIdOnScrape(userId)

\* Hydrate after WatchlistIdScrape; trace holds the events before it
HydrateOnWatchlistId(trace, w) ==
    IF w.out = "return" /\ w.err # <<>>
    THEN [w EXCEPT !.trace = trace \o @,
                   !.err = Wrap("failure scraping imdb watchlist id", @)]
    ELSE [w EXCEPT !.trace = trace \o @]

\* Hydrate after the user id step, u being its result
HydrateOnUserId(c, u, o2) ==
    IF u.out # "return" THEN u
    ELSE IF u.err # <<>>
    THEN [u EXCEPT !.err = Wrap("failure scraping imdb user id", @)]
    ELSE HydrateOnWatchlistId(u.trace,
                              WatchlistIdScrape([c EXCEPT !.config = u.config], o2, 2))

\* Hydrate, with o1 what the profile request meets and o2 the watchlist request
Hydrate(c, o1, o2) ==
    IF ScrapesUserId(c.config.UserId)
    THEN HydrateOnUserId(c, UserIdScrape(c, o1, 1), o2)
    ELSE HydrateOnUserId(c, ScrapeResult("return", <<>>, <<>>, c.config), o2)

\* NewImdbClient after Hydrate: [out, client, err, trace]
NewImdbClientHydrated(c, h) ==
    IF h.out # "return"
    THEN [out |-> h.out, client |-> <<>>, err |-> <<>>, trace |-> h.trace]
    ELSE IF h.err # <<>>
    THEN [out |-> "return", client |-> <<>>,
          err |-> Wrap("failure hydrating imdb client", h.err), trace |-> h.trace]
    ELSE [out |-> "return", client |-> <<[c EXCEPT !.config = h.config]>>,
          err |-> <<>>, trace |-> h.trace]

\* the client before Hydrate
NewClient(config) ==
    [endpoint |-> imdbPathBase, jar |-> setupCookieJar(config), config |-> config]

\* NewImdbClient; url.Parse of the constant base URL and cookiejar.New(nil)
\* do not fail
NewImdbClient(config, o1, o2) ==
    NewImdbClientHydrated(NewClient(config), Hydrate(NewClient(config), o1, o2))

-----------------------------------------------------------------------------
(* ListsScrape.  The callback of Each runs once per ".user-list" element;  *)
(* what each export request meets is drawn from a set, so the operation    *)
(* yields a set of runs, each [out, dps, err, trace].                      *)

\* errors.As(err, new(*ResourceNotFoundError)) in the callback
\* (SkipsNothing: a callback that skips no list)
SkipsNotFound(err) == ErrorsAs(err, "ResourceNotFoundError")
SkipsNothing(err) == FALSE
SkipsList(err) == SkipsNotFound(err)

DataPair(imdbList, imdbListId, imdbListName) ==
    [ImdbList |-> imdbList, ImdbListId |-> imdbListId, ImdbListName |-> imdbListName,
     TraktListId |-> FormatTraktListName(imdbListName)]

ListsResult(out, dps, err, trace) ==
    [out |-> out, dps |-> dps, err |-> err, trace |-> trace]

RECURSIVE EachUserList(_, _, _, _, _, _)
RECURSIVE EachOnListItems(_, _, _, _, _, _, _)

\* the callback after ListItemsGet, g being its result; *imdbListName panics
\* when imdbListName is nil
EachOnListItems(c, elems, i, outcomes, dps, trace, g) ==
    IF g.out # "return" THEN {ListsResult(g.out, <<>>, <<>>, trace \o g.trace)}
    ELSE IF SkipsList(g.err)
    THEN EachUserList(c, elems, i + 1, outcomes, dps, trace \o g.trace)
    ELSE IF g.name = <<>>
    THEN {ListsResult("panic", <<>>, <<>>, trace \o g.trace)}
    ELSE EachUserList(c, elems, i + 1, outcomes,
                      Append(dps, DataPair(g.items, elems[i][1], g.name[1])),
                      trace \o g.trace)

\* doc.Find(".user-list").Each(...) from element i on
EachUserList(c, elems, i, outcomes, dps, trace) ==
    IF i > Len(elems) THEN {ListsResult("return", dps, <<>>, trace)}
    ELSE IF elems[i] = <<>>
    THEN EachUserList(c, elems, i + 1, outcomes, dps,
                      Append(trace, [ev |-> "log", msg |-> "found no imdb lists"]))
    ELSE UNION {EachOnListItems(c, elems, i, outcomes, dps, trace,
                                ListItemsGet(c, elems[i][1], o, i + 1)) : o \in outcomes}

\* ListsScrape from the document on
ListsOnPage(c, p, outcomes) ==
    IF p.page = <<>> THEN {ListsResult(p.out, <<>>, p.err, p.trace)}
    ELSE IF p.err # <<>>
    THEN {DrainBody(ListsResult(p.out, <<>>, p.err, p.trace), p.page[1].Body, 1)}
    ELSE {DrainBody(run, p.page[1].Body, 1) :
             run \in EachUserList(c, p.page[1].Body.data.lists, 1, outcomes, <<>>, p.trace)}

ListsScrape(c, o, outcomes) ==
    ListsOnPage(c,
                PageOnRequest(doRequest(c, Get(imdbPathLists(c.config.UserId)), o, 1),
                              "ListsScrape", "failure trying to scrape imdb lists", 1),
                outcomes)

-----------------------------------------------------------------------------
(* What the requests of the client can meet. *)

EmptyDoc == Doc(<<>>, <<>>, <<>>)

\* a page request: no response, a failed redirect, a refused or failing
\* status, an unreadable or unclosable body, or one of the documents docs as
\* the page (200) or as an error page (404)
PageOutcomes(docs) ==
    {TransportFailure, RedirectFailure,
     Responded(StatusForbidden, <<>>, GoodBody(EmptyDoc)),
     Responded(StatusOK, <<>>, UnreadableBody)}
    \cup {Responded(st, <<>>, GoodBody(EmptyDoc)) : st \in UnexpectedStatuses}
    \cup {Responded(StatusOK, <<>>, UnclosableBody(d)) : d \in docs \ {EmptyDoc}}
    \cup {Responded(st, <<>>, GoodBody(d)) : st \in {StatusOK, StatusNotFound}, d \in docs}

ProfileOutcomes == PageOutcomes({EmptyDoc, Doc(<<"ur12345">>, <<>>, <<>>)})

WatchlistPageOutcomes == PageOutcomes({EmptyDoc, Doc(<<>>, <<"ls99999">>, <<>>)})

ListIds == {"ls000000001", "ls000000002"}

UserListElements == {<<>>} \cup {<<id>> : id \in ListIds \cup {BadEscapeId}}

ListsPageOutcomes ==
    PageOutcomes({Doc(<<>>, <<>>, elems) : elems \in SeqsUpTo(UserListElements, MaxLists)})

\* an export request: as a page request, with a CSV body and a
\* Content-Disposition header on 200
ExportOutcomes(exports) ==
    {TransportFailure, RedirectFailure,
     Responded(StatusForbidden, <<>>, GoodBody(<<>>)),
     Responded(StatusNotFound, <<>>, GoodBody(<<>>)),
     Responded(StatusOK, <<>>, UnreadableBody)}
    \cup {Responded(st, <<>>, GoodBody(<<>>)) : st \in UnexpectedStatuses}
    \cup {Responded(StatusOK, e[1], GoodBody(e[2])) : e \in exports}

ListExports ==
    {<<HeaderNamed(FilenameMyList), <<ListHeaderRow, ListRowA, ListRowB>>>>,
     <<HeaderNamed(FilenameSciFi), <<ListHeaderRow, ListRowB>>>>,
     <<HeaderNamed(FilenameMyList), <<ListHeaderRow, SubSeq(ListRowA, 1, 2)>>>>,
     <<HeaderAbsent, <<ListHeaderRow, ListRowA>>>>}

ListExportOutcomes ==
    ExportOutcomes(ListExports)
    \cup {Responded(StatusOK, HeaderNamed(FilenameMyList), UnclosableBody(<<ListHeaderRow>>))}

RatingExports ==
    {<<HeaderAbsent, <<RatingHeaderRow, RatingRowA>>>>,
     <<HeaderAbsent, <<RatingHeaderRow, RatingRowBadRating>>>>,
     <<HeaderAbsent, <<RatingHeaderRow, RatingRowA, RatingRowBadDate>>>>,
     <<HeaderAbsent, <<RatingHeaderRow, SubSeq(RatingRowA, 1, 3)>>>>}

RatingExportOutcomes == ExportOutcomes(RatingExports)

\* the configurations a caller constructs the client with
Configs ==
    [CookieAtMain : {"at"}, CookieUbidMain : {"ubid"},
     UserId : {"", "scrape", "auto-detect", "ur54321"},
     WatchlistId : {"", "ls000000009"}]

-----------------------------------------------------------------------------
(* The specification of the client: it is constructed once, and while the  *)
(* process lives its operations are called one after the other; call holds *)
(* the operation last called until the caller has taken its result.        *)

Init ==
    /\ phase = "start"
    /\ client = <<>>
    /\ call = <<>>
    /\ slugIn = <<>> /\ slugOut = <<>>
    /\ parseIn = <<>> /\ parseOut = <<>>

\* the process after an operation: a panic or log.Fatalf ends it
After(r) == IF r.out = "return" THEN phase ELSE "dead"

\* NewImdbClient has ended with r: the caller holds what it returned
Constructed(config, r) ==
    /\ call' = [op |-> "NewImdbClient", arg |-> config, r |-> r]
    /\ client' = r.client
    /\ phase' = IF r.out # "return" THEN "dead"
                ELSE IF r.err # <<>> THEN "failed" ELSE "ready"

\* an operation of the client has ended with r
Returned(op, arg, r) ==
    /\ call' = [op |-> op, arg |-> arg, r |-> r]
    /\ phase' = After(r)

\* a scrape has ended with r: it stores the id it found in c.config
Scraped(op, r) ==
    /\ Returned(op, "", r)
    /\ client' = <<[client[1] EXCEPT !.config = r.config]>>

\* the caller holds a client and no call is under way
Idle == phase = "ready" /\ call = <<>>

\* the caller takes the result of the operation that returned
TakeResult ==
    /\ phase = "ready"
    /\ call # <<>>
    /\ call' = <<>>
    /\ UNCHANGED <<phase, client, slugVars, parseVars>>

Construct ==
    /\ phase = "start"
    /\ \E config \in Configs, o1 \in ProfileOutcomes, o2 \in WatchlistPageOutcomes :
          Constructed(config, NewImdbClient(config, o1, o2))
    /\ UNCHANGED <<slugVars, parseVars>>

CallListItemsGet ==
    /\ Idle
    /\ \E listId \in ListIds \cup {BadEscapeId}, o \in ListExportOutcomes :
          Returned("ListItemsGet", listId, ListItemsGet(client[1], listId, o, 1))
    /\ UNCHANGED <<client, slugVars, parseVars>>

CallWatchlistGet ==
    /\ Idle
    /\ \E o \in ListExportOutcomes :
          Returned("WatchlistGet", "", WatchlistGet(client[1], o, 1))
    /\ UNCHANGED <<client, slugVars, parseVars>>

CallRatingsGet ==
    /\ Idle
    /\ \E o \in RatingExportOutcomes :
          Returned("RatingsGet", "", RatingsGet(client[1], o, 1))
    /\ UNCHANGED <<client, slugVars, parseVars>>

CallListsScrape ==
    /\ Idle
    /\ \E o \in ListsPageOutcomes :
          \E r \in ListsScrape(client[1], o, ListExportOutcomes) :
              Returned("ListsScrape", "", r)
    /\ UNCHANGED <<client, slugVars, parseVars>>

CallUserIdScrape ==
    /\ Idle
    /\ \E o \in ProfileOutcomes :
          Scraped("UserIdScrape", UserIdScrape(client[1], o, 1))
    /\ UNCHANGED <<slugVars, parseVars>>

CallWatchlistIdScrape ==
    /\ Idle
    /\ \E o \in WatchlistPageOutcomes :
          Scraped("WatchlistIdScrape", WatchlistIdScrape(client[1], o, 1))
    /\ UNCHANGED <<slugVars, parseVars>>

Next ==
    \/ Construct
    \/ TakeResult
    \/ CallListItemsGet
    \/ CallWatchlistGet
    \/ CallRatingsGet
    \/ CallListsScrape
    \/ CallUserIdScrape
    \/ CallWatchlistIdScrape

Spec == Init /\ [][Next]_vars

-----------------------------------------------------------------------------
(* What the claims about the client read off the call. *)

\* the items the list mode is to produce: one per row after the header
ExpectedListItems(csvData) ==
    [i \in 1..(Len(csvData) - 1) |->
        [Id |-> csvData[i + 1][2], TitleType |-> csvData[i + 1][8],
         Rating |-> <<>>, RatingDate |-> <<>>]]

Called(op) == call # <<>> /\ call.op = op

Trace == call.r.trace

\* the positions in the trace of the events of one kind
EventsOf(ev) == {i \in 1..Len(Trace) : Trace[i].ev = ev}

\* the positions of the requests the HTTP client answered with a response
\* and no error
Answered == {i \in EventsOf("Do") : Trace[i].o.err = <<>>}

StatusAt(i) == Trace[i].o.res[1].StatusCode

\* the function fn was entered during the call
Ran(fn) == \E i \in EventsOf("call") : Trace[i].fn = fn

\* an error chain that holds the authorization error of doRequest
IsAuthorizationError(err) ==
    \E j \in 1..Len(err) :
        err[j].type = "ImdbError" /\ err[j].statusCode = StatusForbidden

\* C1: whenever a request of an operation is answered with status 403, the
\* operation returns an authorization error to its caller.
C1_ForbiddenYieldsAuthorizationError ==
    (call # <<>> /\ \E i \in Answered : StatusAt(i) = StatusForbidden)
    => (call.r.out = "return" /\ IsAuthorizationError(call.r.err))

\* a well-formed list export: readable, closable, every data row with columns
\* 1 and 7, and a Content-Disposition header with parameters
WellFormedListExport(res) ==
    /\ ~res.Body.readErr /\ ~res.Body.closeErr
    /\ \A j \in 2..Len(res.Body.data) : Len(res.Body.data[j]) >= 8
    /\ res.Header # <<>> /\ res.Header[1].ok /\ res.Header[1].params # <<>>

\* the request numbered k of the call, as a position in the trace (0: none)
DoOf(k) ==
    IF \E i \in EventsOf("Do") : Trace[i].k = k
    THEN CHOOSE i \in EventsOf("Do") : Trace[i].k = k
    ELSE 0

\* the Collection Pairs ListsScrape is to produce for the elements from i on:
\* one per element with an id whose export was answered with 200
RECURSIVE ExpectedPairs(_, _)
ExpectedPairs(elems, i) ==
    IF i > Len(elems) THEN <<>>
    ELSE IF elems[i] # <<>> /\ StatusAt(DoOf(i + 1)) = StatusOK
    THEN <<[ImdbListId |-> elems[i][1],
            ImdbListName |-> BeforeDot(Trace[DoOf(i + 1)].o.res[1].Header[1].params.filename),
            TraktListId |-> FormatTraktListName(
                BeforeDot(Trace[DoOf(i + 1)].o.res[1].Header[1].params.filename)),
            ImdbList |-> ExpectedListItems(Trace[DoOf(i + 1)].o.res[1].Body.data)]>>
         \o ExpectedPairs(elems, i + 1)
    ELSE ExpectedPairs(elems, i + 1)

\* the lists page was fetched and parsed, and every export request made so far
\* was answered with 404 or with 200 and a well-formed export
OnlyFoundOrNotFound ==
    /\ Called("ListsScrape")
    /\ DoOf(1) \in Answered
    /\ StatusAt(DoOf(1)) \in {StatusOK, StatusNotFound}
    /\ ~Trace[DoOf(1)].o.res[1].Body.readErr
    /\ ~Trace[DoOf(1)].o.res[1].Body.closeErr
    /\ \A j \in 1..Len(Trace[DoOf(1)].o.res[1].Body.data.lists) :
          Trace[DoOf(1)].o.res[1].Body.data.lists[j] # <<BadEscapeId>>
    /\ \A i \in EventsOf("Do") \ {DoOf(1)} :
          /\ i \in Answered
          /\ \/ StatusAt(i) = StatusNotFound
             \/ StatusAt(i) = StatusOK /\ WellFormedListExport(Trace[i].o.res[1])

\* C2: in ListsScrape, when the export requests are answered with 200 (a
\* well-formed export) or 404, a 404 is skipped and the enumeration goes on:
\* every enumerated identifier is fetched, ListsScrape returns no error, and the
\* result holds, in order, exactly one pair per identifier answered with 200,
\* with its id, display name, slug and items.
C2_NotFoundListsSkipped ==
    OnlyFoundOrNotFound
    => (/\ call.r.out = "return"
        /\ call.r.err = <<>>
        /\ \A j \in 1..Len(Trace[DoOf(1)].o.res[1].Body.data.lists) :
              Trace[DoOf(1)].o.res[1].Body.data.lists[j] # <<>> => DoOf(j + 1) # 0
        /\ call.r.dps = ExpectedPairs(Trace[DoOf(1)].o.res[1].Body.data.lists, 1))

\* a 404 for the first list was skipped and the second list was materialized
C2_Witness ==
    /\ OnlyFoundOrNotFound
    /\ DoOf(2) # 0 /\ StatusAt(DoOf(2)) = StatusNotFound
    /\ DoOf(3) # 0 /\ StatusAt(DoOf(3)) = StatusOK
    /\ Len(call.r.dps) = 1
    /\ call.r.dps[1].ImdbListName = <<"M", "y", " ", "L", "i", "s", "t">>
    /\ call.r.dps[1].TraktListId = <<"m", "y", "-", "l", "i", "s", "t">>

\* the export request of an export operation was answered with 404
ExportAnsweredNotFound(op) ==
    /\ Called(op)
    /\ \E i \in Answered : StatusAt(i) = StatusNotFound

\* C3: an export fetch answered with 404 returns a ResourceNotFoundError with
\* the kind and the identifier (list and the id asked for, watchlist and the
\* watchlist id of the client, rating and no id), no items and no list name.
C3_NotFoundCarriesKindAndId ==
    /\ ExportAnsweredNotFound("ListItemsGet") =>
          /\ call.r.out = "return"
          /\ call.r.err = <<[type |-> "ResourceNotFoundError", resourceType |-> "list",
                             resourceId |-> <<call.arg>>]>>
          /\ call.r.name = <<>> /\ call.r.items = <<>>
    /\ ExportAnsweredNotFound("WatchlistGet") =>
          /\ call.r.out = "return"
          /\ call.r.err = <<[type |-> "ResourceNotFoundError", resourceType |-> "watchlist",
                             resourceId |-> <<client[1].config.WatchlistId>>]>>
          /\ call.r.name = <<>> /\ call.r.items = <<>>
    /\ ExportAnsweredNotFound("RatingsGet") =>
          /\ call.r.out = "return"
          /\ call.r.err = <<[type |-> "ResourceNotFoundError", resourceType |-> "rating",
                             resourceId |-> <<>>]>>
          /\ call.r.name = <<>> /\ call.r.items = <<>>

\* ListItemsGet of a list met a 404
C3_Witness ==
    /\ ExportAnsweredNotFound("ListItemsGet")
    /\ call.arg = "ls000000002"
    /\ ErrorsAs(call.r.err, "ResourceNotFoundError")

\* what the profile request met lets UserIdScrape find the user id
UserIdFound(o) ==
    /\ o.err = <<>>
    /\ o.res[1].StatusCode \in {StatusOK, StatusNotFound}
    /\ ~o.res[1].Body.readErr
    /\ o.res[1].Body.data.userid # <<>>

\* what the watchlist request met lets WatchlistIdScrape find the watchlist id
WatchlistIdFound(o) ==
    /\ o.err = <<>>
    /\ o.res[1].StatusCode \in {StatusOK, StatusNotFound}
    /\ ~o.res[1].Body.readErr
    /\ o.res[1].Body.data.pageId # <<>>

\* C4, as claimed, on the constructions that return a client: the user id is
\* resolved exactly when the supplied user id is empty or "auto-detect", a user
\* id that is not resolved is kept, and the watchlist id is resolved.
C4_AutoDetectSentinel ==
    (Called("NewImdbClient") /\ phase = "ready")
    => (/\ Ran("UserIdScrape") <=> call.arg.UserId \in {"", "auto-detect"}
        /\ (~Ran("UserIdScrape") /\ client # <<>>)
              => client[1].config.UserId = call.arg.UserId
        /\ Ran("WatchlistIdScrape"))

\* C4, amended, on every construction: the user id is resolved exactly when the supplied user id is
\* empty or "scrape"; any other supplied user id ("auto-detect" too) is not
\* resolved and the client returned holds it; the watchlist id is resolved
\* exactly when the user id step was skipped or succeeded (it found the user id
\* and released the page), whatever the configuration.
C4_ScrapeSentinel ==
    Called("NewImdbClient")
    => (/\ Ran("UserIdScrape") <=> call.arg.UserId \in {"", "scrape"}
        /\ (~Ran("UserIdScrape") /\ client # <<>>)
              => client[1].config.UserId = call.arg.UserId
        /\ Ran("WatchlistIdScrape")
              <=> \/ ~Ran("UserIdScrape")
                  \/ /\ DoOf(1) # 0
                     /\ UserIdFound(Trace[DoOf(1)].o)
                     /\ ~Trace[DoOf(1)].o.res[1].Body.closeErr)

\* a client constructed with "auto-detect": no user id was resolved
C4_Witness ==
    /\ Called("NewImdbClient")
    /\ call.arg.UserId = "auto-detect"
    /\ phase = "ready"
    /\ ~Ran("UserIdScrape") /\ Ran("WatchlistIdScrape")
    /\ client[1].config = [call.arg EXCEPT !.WatchlistId = "ls99999"]

\* C5: construction returns an error and no client when a resolution that ran
\* failed (its request failed, or the attribute was absent), and returns a
\* client only when every resolution that ran found its id, the client holding
\* the ids found.
C5_ConstructionAllOrNothing ==
    Called("NewImdbClient")
    => (/\ (\/ DoOf(1) # 0 /\ ~UserIdFound(Trace[DoOf(1)].o)
            \/ DoOf(2) # 0 /\ ~WatchlistIdFound(Trace[DoOf(2)].o))
              => (call.r.out = "return" /\ call.r.err # <<>> /\ client = <<>>)
        /\ client # <<>>
              => (/\ DoOf(1) # 0 =>
                        /\ UserIdFound(Trace[DoOf(1)].o)
                        /\ client[1].config.UserId
                               = Trace[DoOf(1)].o.res[1].Body.data.userid[1]
                  /\ DoOf(2) # 0
                  /\ WatchlistIdFound(Trace[DoOf(2)].o)
                  /\ client[1].config.WatchlistId
                         = Trace[DoOf(2)].o.res[1].Body.data.pageId[1]))

\* the return of doRequest for the request at position i of the trace (0: it
\* did not return)
ReturnOf(i) ==
    IF \E j \in EventsOf("doRequest") : Trace[j].k = Trace[i].k
    THEN CHOOSE j \in EventsOf("doRequest") : Trace[j].k = Trace[i].k
    ELSE 0

\* C6: doRequest hands the raw response back exactly when the status is 200 or
\* 404, and for a status other than 200, 404 and 403 it returns no response and
\* an error that carries the status code, the method and the URL.
C6_ResponseExactlyOnOkOrNotFound ==
    call # <<>>
    => \A i \in EventsOf("Do") :
          ReturnOf(i) # 0 =>
              /\ Trace[ReturnOf(i)].res # <<>>
                    <=> (i \in Answered /\ StatusAt(i) \in {StatusOK, StatusNotFound})
              /\ Trace[ReturnOf(i)].res # <<>>
                    => (Trace[ReturnOf(i)].res = Trace[i].o.res
                        /\ Trace[ReturnOf(i)].err = <<>>)
              /\ (i \in Answered
                  /\ StatusAt(i) \notin {StatusOK, StatusNotFound, StatusForbidden})
                    => Trace[ReturnOf(i)].err
                          = <<[type |-> "ImdbError", httpMethod |-> Trace[i].method,
                               url |-> Trace[i].url, statusCode |-> StatusAt(i),
                               details |-> <<"unexpected status code", StatusAt(i)>>]>>

\* a request was answered with 500 and doRequest returned the error for it,
\* and another with 404 and doRequest returned the response
C6_Witness ==
    /\ Called("ListsScrape")
    /\ \E i \in Answered :
          /\ StatusAt(i) = 500
          /\ ReturnOf(i) # 0
          /\ Trace[ReturnOf(i)].res = <<>>
          /\ Trace[ReturnOf(i)].err[1].statusCode = 500
    /\ \E i \in Answered :
          /\ StatusAt(i) = StatusNotFound
          /\ ReturnOf(i) # 0
          /\ Trace[ReturnOf(i)].res = Trace[i].o.res

\* C7: when the HTTP client returns an error and no response, doRequest
\* returns no response and an error that wraps the cause, and the operation
\* that called it returns an error.
C7_TransportErrorReturned ==
    call # <<>>
    => \A i \in EventsOf("Do") :
          (Trace[i].o.err # <<>> /\ Trace[i].o.res = <<>>)
          => (/\ ReturnOf(i) # 0
              /\ Trace[ReturnOf(i)].res = <<>>
              /\ Len(Trace[ReturnOf(i)].err) > 1
              /\ Cause(Trace[ReturnOf(i)].err) = Cause(Trace[i].o.err)
              /\ call.r.out = "return"
              /\ call.r.err # <<>>)

\* the positions at which the body of request k was closed, and was read
ClosesOf(k) == {j \in EventsOf("close") : Trace[j].k = k}
ReadsOf(k) == {j \in EventsOf("read") : Trace[j].k = k}

\* C8: when an operation has returned, every response body it received open
\* from the HTTP client was closed exactly once, and no body was read after it
\* was closed.
C8_BodyReleasedOnce ==
    (call # <<>> /\ call.r.out = "return")
    => \A i \in EventsOf("Do") :
          (Trace[i].o.res # <<>> /\ ~Trace[i].o.res[1].Body.closed)
          => (/\ Cardinality(ClosesOf(Trace[i].k)) = 1
              /\ \A j \in ReadsOf(Trace[i].k), c \in ClosesOf(Trace[i].k) : j < c)

-----------------------------------------------------------------------------
(* The specification of readResponse on its own: any decoded CSV of up to  *)
(* MaxRows rows, any header, any mode tag.                                 *)

ParseInput(header, body, resType) ==
    [res |-> [StatusCode |-> StatusOK, Header |-> header, Body |-> body],
     resType |-> resType]

InitParse ==
    /\ \/ \E h \in Headers, d \in SeqsUpTo(ListRowPool, MaxRows) :
              parseIn = ParseInput(h, GoodBody(d), resourceTypeList)
       \/ \E d \in SeqsUpTo(RatingRowPool, MaxRows) :
              parseIn = ParseInput(HeaderAbsent, GoodBody(d), resourceTypeRating)
       \/ \E b \in {UnreadableBody, GoodBody(<<>>)},
             t \in {resourceTypeList, resourceTypeRating, resourceTypeWatchlist} :
              parseIn = ParseInput(HeaderAbsent, b, t)
    /\ parseOut = <<>>
    /\ phase = "start" /\ client = <<>> /\ call = <<>>
    /\ slugIn = <<>> /\ slugOut = <<>>

ReadResponse ==
    /\ parseOut = <<>>
    /\ parseOut' = <<readResponse(parseIn.res, parseIn.resType)>>
    /\ UNCHANGED <<parseIn, clientVars, slugVars>>

NextParse == ReadResponse

SpecParse == InitParse /\ [][NextParse]_vars

\* C10: in list mode, for any decoded CSV whose rows may have differing field
\* counts (and a well-formed Content-Disposition header), readResponse returns
\* and yields exactly one item per row after the header, in row order, with the
\* id from column 1, the title type from column 7 and no rating or rating date.
C10_ListModeAnyRows ==
    (/\ parseOut # <<>>
     /\ parseIn.resType = resourceTypeList
     /\ ~parseIn.res.Body.readErr
     /\ parseIn.res.Header \in {HeaderNamed(FilenameMyList), HeaderNamed(FilenameSciFi)})
    => (/\ parseOut[1].out = "return"
        /\ parseOut[1].items = ExpectedListItems(parseIn.res.Body.data))

-----------------------------------------------------------------------------
(* The specification of FormatTraktListName on its own. *)

InitSlug ==
    /\ slugIn \in SeqsUpTo(Alphabet, MaxLen)
    /\ slugOut = <<>>
    /\ phase = "start" /\ client = <<>> /\ call = <<>>
    /\ parseIn = <<>> /\ parseOut = <<>>

\* one more application: of the input first, of the last output after that
FormatStep ==
    /\ Len(slugOut) < MaxApply
    /\ slugOut' = Append(slugOut,
                         FormatTraktListName(IF slugOut = <<>> THEN slugIn ELSE Last(slugOut)))
    /\ UNCHANGED <<slugIn, clientVars, parseVars>>

NextSlug == FormatStep

SpecSlug == InitSlug /\ [][NextSlug]_vars

\* C9: FormatTraktListName is idempotent and its output holds only lower-case
\* letters a-z, digits and hyphens: every output is made of slug characters, and
\* applying the function to an output gives that output back.
C9_SlugIdempotentClosed ==
    \A i \in 1..Len(slugOut) :
        /\ \A j \in 1..Len(slugOut[i]) : slugOut[i][j] \in SlugChars
        /\ i > 1 => slugOut[i] = slugOut[i - 1]

\* an input with upper case, spaces and punctuation was formatted twice
C9_Witness ==
    /\ Len(slugOut) = MaxApply
    /\ slugIn = <<"A", " ", "!", "a">>
    /\ slugOut[1] = <<"a", "-", "a">>

====
